---- MODULE Spec2Model ----
(***************************************************************************)
(* A model of the SAGA catalog toolkit:                                    *)
(*   SAGA/utils.py                 join_table_by_coordinates,              *)
(*                                 fill_values_by_query                    *)
(*   SAGA/spectra/read_observed.py read_generic_spectra and the readers    *)
(*                                 built on it                             *)
(*   SAGA/hosts/host_catalog.py    HostCatalog                             *)
(*   SAGA/database/external.py     download_catalogs_for_hosts,            *)
(*                                 SdssQuery.run_casjobs_with_casjobs      *)
(*   SAGA/objects/sdss.py          run_casjob                              *)
(* Each is exercised by a specification of its own (SpecJoin, SpecFill,    *)
(* SpecRead, SpecHost, SpecDownload, SpecCasjob); Spec is their union.     *)
(* The variables of the functions a specification does not exercise stay   *)
(* at their idle values.                                                   *)
(***************************************************************************)
EXTENDS Integers, Sequences, FiniteSets, TLC

VARIABLES
    jargs,      \* join_table_by_coordinates: the arguments of the call
    t1,         \* join_table_by_coordinates: the base table, mutated in place
    idx,        \* join_table_by_coordinates: the matched pairs <<idx1[k], idx2[k]>>
    n_matched,  \* join_table_by_coordinates: the returned count
    jpc,        \* "idle" | "call" | "done"
    fargs,      \* fill_values_by_query: the arguments of the call
    ftable,     \* fill_values_by_query: the table, mutated in place
    fret,       \* fill_values_by_query: the returned count
    fpc,        \* "idle" | "call" | "done"
    rargs,      \* a reader call: the reader, the directory listing, before_time
    ri,         \* read_generic_spectra: the position of the loop in the listing
    output,     \* read_generic_spectra: the list of per-file tables
    warned,     \* the files a warning was logged for
    result,     \* the table returned, or the exception raised
    rpc,        \* "idle" | "loop" | "returned" | "raised"
    hcat,       \* the HostCatalog: _all_host_ids and the two name maps
    hcall,      \* the last call made on the catalog
    hret,       \* what that call returned or raised, as the caller holds it
    hshared,    \* the list held is the catalog's own _all_host_ids
    hpc,        \* "idle" | "ready" | "returned" | "modified"
    dargs,      \* download_catalogs_for_hosts: overwrite, file_size_check
    files,      \* the size of the file of each host, or NoFile
    di,         \* download_catalogs_for_hosts: the host the loop is at
    failed,     \* download_catalogs_for_hosts: the array returned
    dexc,       \* the exception the fetch raised, while the finally clause runs
    mydb,       \* the staging tables on the server
    dlog,       \* the calls made and the exceptions caught, in order
    dpc,        \* "idle" | "host" | "monitor" | "open" | "fetch" | "finally" |
                \* "else" | "done" | "propagated"
    cargs,      \* run_casjob: overwrite, compress
    remote,     \* the state of the submitted job on the server
    code,       \* run_casjob: the code cjob.status returned last
    ctable,     \* the staging table of the job exists on the server
    cout,       \* which of output_path and output_path + '.tmp' exist
    cpc         \* "idle" | "call" | "while" | "sleep" | "fetch" | "drop" | "done"

joinVars == <<jargs, t1, idx, n_matched, jpc>>
fillVars == <<fargs, ftable, fret, fpc>>
readVars == <<rargs, ri, output, warned, result, rpc>>
hostVars == <<hcat, hcall, hret, hshared, hpc>>
downloadVars == <<dargs, files, di, failed, dexc, mydb, dlog, dpc>>
casjobVars == <<cargs, remote, code, ctable, cout, cpc>>
vars == <<jargs, t1, idx, n_matched, jpc, fargs, ftable, fret, fpc,
         rargs, ri, output, warned, result, rpc,
         hcat, hcall, hret, hshared, hpc,
         dargs, files, di, failed, dexc, mydb, dlog, dpc,
         cargs, remote, code, ctable, cout, cpc>>

(***************************************************************************)
(* Bounds of the model.                                                    *)
(***************************************************************************)
NBase == 2      \* rows of the base table
NOther == 2     \* rows of the table to join
MaxCoord == 1   \* RA takes the values 0..MaxCoord (in units of the grid)
MaxTol == 1     \* max_distance takes the values 0..MaxTol
NFill == 2      \* rows of the table fill_values_by_query is called on
MaxVal == 1     \* its cells, and the query's constant, take the values 0..MaxVal
NFiles == 2     \* entries of the directory a reader lists
MaxTime == 1    \* observation times and before_time take the values 0..MaxTime
MaxList == 2    \* elements of a list passed to resolve_id
NHosts == 2     \* hosts passed to download_catalogs_for_hosts

(***************************************************************************)
(* Generic helpers.                                                        *)
(***************************************************************************)
Abs(x) == IF x < 0 THEN -x ELSE x

Perms(n) == {p \in [1..n -> 1..n] : \A a, b \in 1..n : p[a] = p[b] => a = b}

\* np.nan, the default missing_value (utils.py:49), as a token no data
\* value is equal to.
NaN == -999

\* A python dict is a function; dict() is the function of empty domain.
EmptyDict == [k \in {} |-> 0]

\* dict.get(key, default)
Get(d, key, default) == IF key \in DOMAIN d THEN d[key] ELSE default

(***************************************************************************)
(* join_table_by_coordinates (utils.py:47-95)                              *)
(*                                                                         *)
(* A table is a function from column names to columns, a column a          *)
(* sequence of cells.  Rows lie on the equator (DEC = 0), so the angular   *)
(* separation of two rows is the difference of their RA.                   *)
(***************************************************************************)
BaseTable(ra) ==
    [RA |-> ra, DEC |-> [i \in 1..NBase |-> 0], A |-> [i \in 1..NBase |-> i]]

OtherTable(ra) ==
    [RA |-> ra, DEC |-> [j \in 1..NOther |-> 0],
     A |-> [j \in 1..NOther |-> 10 + j], B |-> [j \in 1..NOther |-> 20 + j]]

\* t2.colnames, in column order
colnames(t) == IF "B" \in DOMAIN t THEN <<"RA", "DEC", "A", "B">>
               ELSE <<"RA", "DEC", "A">>

\* The optional arguments of a call.  columns_to_join is None or a list of
\* column names of table_to_join; columns_to_rename is None or a dict from
\* joined name to target name; missing_value is a scalar (np.nan by
\* default) or a dict of scalars.  No two joined columns share a target.
NoColumns == [given |-> FALSE, cols |-> <<>>]
Columns(cols) == [given |-> TRUE, cols |-> cols]
NoRename == [given |-> FALSE, map |-> EmptyDict]
Rename(map) == [given |-> TRUE, map |-> map]
Scalar(v) == [isdict |-> FALSE, scalar |-> v, map |-> EmptyDict]
PerColumn(map) == [isdict |-> TRUE, scalar |-> NaN, map |-> map]

Calls ==
    { [columns_to_join |-> NoColumns, columns_to_rename |-> NoRename,
       missing_value |-> Scalar(NaN)],
      [columns_to_join |-> Columns(<<>>), columns_to_rename |-> NoRename,
       missing_value |-> Scalar(NaN)],
      [columns_to_join |-> Columns(<<"B">>), columns_to_rename |-> NoRename,
       missing_value |-> Scalar(NaN)],
      [columns_to_join |-> Columns(<<"B">>), columns_to_rename |-> Rename([B |-> "W"]),
       missing_value |-> PerColumn([W |-> -9])],
      [columns_to_join |-> Columns(<<"B">>), columns_to_rename |-> Rename([B |-> "W"]),
       missing_value |-> PerColumn([B |-> -9])],
      [columns_to_join |-> Columns(<<"A", "B">>), columns_to_rename |-> Rename([B |-> "W"]),
       missing_value |-> Scalar(-1)],
      [columns_to_join |-> Columns(<<"A", "B">>),
       columns_to_rename |-> Rename([A |-> "V", B |-> "W"]),
       missing_value |-> PerColumn([W |-> -9])],
      [columns_to_join |-> NoColumns,
       columns_to_rename |-> Rename([A |-> "V", B |-> "W"]),
       missing_value |-> Scalar(-1)] }

\* SkyCoord.separation between row i of the base and row j of the other
Sep(ta, i, tb, j) == Abs(ta.RA[i] - tb.RA[j]) + Abs(ta.DEC[i] - tb.DEC[j])

\* a nearest-only search, as match_to_catalog_sky would give: it keeps one
\* other-row per base row
NearestOnly(ta, tb, max_distance, order) ==
    LET all == [k \in 1..(NBase * NOther) |->
                    <<((k - 1) \div NOther) + 1, order[((k - 1) % NOther) + 1]>>]
        hit(p) == Sep(ta, p[1], tb, p[2]) <= max_distance
        first(p) == \A q \in {all[k] : k \in 1..Len(all)} :
                        (q[1] = p[1] /\ hit(q)) => q[2] >= p[2]
    IN  SelectSeq(all, LAMBDA p : hit(p) /\ first(p))

\* a search whose radius is one grid unit too wide
SearchTooWide(ta, tb, max_distance, order) ==
    LET all == [k \in 1..(NBase * NOther) |->
                    <<((k - 1) \div NOther) + 1, order[((k - 1) % NOther) + 1]>>]
    IN  SelectSeq(all, LAMBDA p : Sep(ta, p[1], tb, p[2]) <= max_distance + 1)

\* sc_to_join.search_around_sky(sc, max_distance): every pair <<i, j>> with
\* separation at most max_distance, enumerated base row by base row; within
\* a base row the other-rows come in the order the search tree visits them
\* (order, a permutation of the other table's rows).
search_around_sky(ta, tb, max_distance, order) ==
    LET all == [k \in 1..(NBase * NOther) |->
                    <<((k - 1) \div NOther) + 1, order[((k - 1) % NOther) + 1]>>]
    IN  SelectSeq(all, LAMBDA p : Sep(ta, p[1], tb, p[2]) <= max_distance)

RECURSIVE FirstWriteWins(_, _, _)
\* the assignment with the pairs written in reverse: an element set more
\* than once keeps the first value
FirstWriteWins(col, pairs, src) ==
    IF pairs = <<>> THEN col
    ELSE LET n == Len(pairs)
         IN  FirstWriteWins([col EXCEPT ![pairs[n][1]] = src[pairs[n][2]]],
                            SubSeq(pairs, 1, n - 1), src)

RECURSIVE SetItems(_, _, _)
\* t1[c1][idx1] = t2[c2][idx2]: the pairs are written in enumeration order,
\* so an element set more than once keeps the last value.
SetItems(col, pairs, src) ==
    IF pairs = <<>> THEN col
    ELSE SetItems([col EXCEPT ![pairs[1][1]] = src[pairs[1][2]]], Tail(pairs), src)

\* the lookup without the per-column dict: the scalar default alone
MissingScalarOnly(c1, missing_value) ==
    IF missing_value.isdict THEN NaN ELSE missing_value.scalar

\* missing_value_dict.get(c1, missing_value), after lines 83-87
MissingFor(c1, missing_value) ==
    IF missing_value.isdict
    THEN Get(missing_value.map, c1, NaN)
    ELSE Get(EmptyDict, c1, missing_value.scalar)

\* t1[c1] = v for a scalar v: a new column holding v in every row
WithColumn(t, c1, v) ==
    [c \in DOMAIN t \cup {c1} |-> IF c = c1 THEN [i \in 1..NBase |-> v] ELSE t[c]]

RECURSIVE JoinColumns(_, _, _, _, _, _)
\* the loop of lines 89-93 over columns_to_join
JoinColumns(t, tb, cols, rename, missing_value, pairs) ==
    IF cols = <<>> THEN t
    ELSE LET c2 == Head(cols)
             c1 == Get(rename, c2, c2)
             tc == IF c1 \notin DOMAIN t
                   THEN WithColumn(t, c1, MissingFor(c1, missing_value))
                   ELSE t
             tw == [tc EXCEPT ![c1] = SetItems(tc[c1], pairs, tb[c2])]
         IN  JoinColumns(tw, tb, Tail(cols), rename, missing_value, pairs)

\* lines 77-78: columns_to_join, t2.colnames when None
ResolvedColumns(a) ==
    IF a.columns_to_join.given THEN a.columns_to_join.cols
    ELSE colnames(a.table_to_join)

\* lines 80-81: columns_to_rename, dict() when None
ResolvedRename(a) ==
    IF a.columns_to_rename.given THEN a.columns_to_rename.map ELSE EmptyDict

\* the base table after the call (lines 76-93), pairs being the matches
Joined(a, pairs) ==
    IF Len(pairs) # 0
    THEN JoinColumns(a.table, a.table_to_join, ResolvedColumns(a),
                     ResolvedRename(a), a.missing_value, pairs)
    ELSE a.table

JoinArgs(ra1, ra2, c, d, o) ==
    [table |-> BaseTable(ra1), table_to_join |-> OtherTable(ra2),
     columns_to_join |-> c.columns_to_join,
     columns_to_rename |-> c.columns_to_rename,
     missing_value |-> c.missing_value,
     max_distance |-> d, order |-> o]

IdleJoin ==
    /\ jargs = [table |-> <<>>]
    /\ t1 = <<>>
    /\ idx = <<>>
    /\ n_matched = 0
    /\ jpc = "idle"

StartJoin ==
    /\ \E ra1 \in [1..NBase -> 0..MaxCoord], ra2 \in [1..NOther -> 0..MaxCoord],
          c \in Calls, d \in 0..MaxTol, o \in Perms(NOther) :
            jargs = JoinArgs(ra1, ra2, c, d, o)
    /\ t1 = jargs.table
    /\ idx = <<>>
    /\ n_matched = 0
    /\ jpc = "call"

join_table_by_coordinates ==
    /\ jpc = "call"
    /\ idx' = search_around_sky(jargs.table, jargs.table_to_join,
                                jargs.max_distance, jargs.order)
    /\ n_matched' = Len(idx')
    /\ t1' = Joined(jargs, idx')
    /\ jpc' = "done"
    /\ UNCHANGED <<jargs, fillVars, readVars, hostVars, downloadVars, casjobVars>>

(***************************************************************************)
(* Claims about join_table_by_coordinates.                                 *)
(***************************************************************************)
JoinDone == jpc = "done"

\* the pairs of rows within the tolerance, stated on the coordinates
PairsWithin(a) ==
    {p \in (1..NBase) \X (1..NOther) :
        Abs(a.table.RA[p[1]] - a.table_to_join.RA[p[2]]) <= a.max_distance}

OthersWithin(a, i) == {j \in 1..NOther : <<i, j>> \in PairsWithin(a)}

Targets(a) == {Get(ResolvedRename(a), ResolvedColumns(a)[k], ResolvedColumns(a)[k]) :
                  k \in 1..Len(ResolvedColumns(a))}

\* the other-row of the pair that comes last, among the pairs of base row i,
\* in the enumeration order of the matched pairs
LastMatch(i) ==
    LET ks == {k \in 1..Len(idx) : idx[k][1] = i}
        kl == CHOOSE k \in ks : \A m \in ks : m <= k
    IN  idx[kl][2]

NewColumnFilled(a, t, c2, default) ==
    LET c1 == Get(ResolvedRename(a), c2, c2)
    IN  /\ c1 \in DOMAIN t
        /\ \A i \in 1..NBase :
              IF OthersWithin(a, i) = {}
              THEN t[c1][i] = default
              ELSE t[c1][i] \in {a.table_to_join[c2][j] : j \in OthersWithin(a, i)}

\* the missing value configured for target column c1 (NaN when none is)
Configured(a, c1) ==
    IF a.missing_value.isdict
    THEN IF c1 \in DOMAIN a.missing_value.map THEN a.missing_value.map[c1] ELSE NaN
    ELSE a.missing_value.scalar

SameCoordinates(a) ==
    /\ NBase = NOther
    /\ \A i \in 1..NBase : a.table.RA[i] = a.table_to_join.RA[i]
                           /\ a.table.DEC[i] = a.table_to_join.DEC[i]

\* no two rows of the base table share their coordinates
DistinctCoordinates(a) ==
    \A i, m \in 1..NBase :
        (a.table.RA[i] = a.table.RA[m] /\ a.table.DEC[i] = a.table.DEC[m]) => i = m

RowsJoined(a, t) ==
    \A k \in 1..Len(ResolvedColumns(a)) :
        LET c2 == ResolvedColumns(a)[k]
            c1 == Get(ResolvedRename(a), c2, c2)
        IN  \A i \in 1..NBase : t[c1][i] = a.table_to_join[c2][i]

FillTables == [K : [1..NFill -> 0..MaxVal], V : [1..NFill -> 0..MaxVal]]

Queries == [col : {"K", "V"}, op : {"==", ">"}, val : 0..MaxVal]

FillLiterals == {0, 7}

ValuesToFill ==
    {<<>>}
    \cup {<<<<c, v>>>> : c \in {"K", "V"}, v \in FillLiterals}
    \cup {<<<<"K", v>>, <<"V", w>>>> : v, w \in FillLiterals}
    \cup {<<<<"V", w>>, <<"K", v>>>> : v, w \in FillLiterals}

\* the query on one cell
Holds(q, x) == IF q.op = "==" THEN x = q.val ELSE x > q.val

\* Query(query).mask(table)
Mask(q, t) == [i \in 1..NFill |-> Holds(q, t[q.col][i])]

\* np.count_nonzero(mask)
count_nonzero(mask) == Cardinality({i \in 1..NFill : mask[i]})

\* table[c] = v: the whole column is overwritten
SetColumn(col, mask, v) == [i \in 1..NFill |-> v]

\* table[c][mask] = v
SetMasked(col, mask, v) == [i \in 1..NFill |-> IF mask[i] THEN v ELSE col[i]]

RECURSIVE FillColumns(_, _, _)
\* the loop of lines 110-111 over values_to_fill.items()
FillColumns(t, mask, items) ==
    IF items = <<>> THEN t
    ELSE LET c == items[1][1]
             v == items[1][2]
         IN  FillColumns([t EXCEPT ![c] = SetMasked(t[c], mask, v)], mask, Tail(items))

IdleFill ==
    /\ fargs = [table |-> <<>>]
    /\ ftable = <<>>
    /\ fret = 0
    /\ fpc = "idle"

StartFill ==
    /\ fargs \in [table : FillTables, query : Queries, values_to_fill : ValuesToFill]
    /\ ftable = fargs.table
    /\ fret = 0
    /\ fpc = "call"

fill_values_by_query ==
    /\ fpc = "call"
    /\ LET mask == Mask(fargs.query, ftable)
           n == count_nonzero(mask)
       IN  /\ ftable' = IF n # 0 THEN FillColumns(ftable, mask, fargs.values_to_fill)
                                 ELSE ftable
           /\ fret' = n
    /\ fpc' = "done"
    /\ UNCHANGED <<fargs, joinVars, readVars, hostVars, downloadVars, casjobVars>>

(***************************************************************************)
(* Claims about fill_values_by_query.                                      *)
(***************************************************************************)
FillDone == fpc = "done"

\* the rows of the table passed in that satisfy the predicate
Matching(a) ==
    {i \in 1..NFill :
        IF a.query.op = "==" THEN a.table[a.query.col][i] = a.query.val
        ELSE a.table[a.query.col][i] > a.query.val}

FilledColumns(a) == {a.values_to_fill[k][1] : k \in 1..Len(a.values_to_fill)}

\* C6: the call returns the number of rows that satisfy the predicate;
\* afterwards every matching row holds the given literal in each column of
\* the column-value map and every other cell is unchanged; when no row
\* matches it returns 0 and the table is unchanged.
C6_FillMatchingRows ==
    FillDone =>
        /\ fret = Cardinality(Matching(fargs))
        /\ \A k \in 1..Len(fargs.values_to_fill) :
              \A i \in Matching(fargs) :
                  ftable[fargs.values_to_fill[k][1]][i] = fargs.values_to_fill[k][2]
        /\ DOMAIN ftable = DOMAIN fargs.table
        /\ \A c \in DOMAIN fargs.table : \A i \in 1..NFill :
              (c \notin FilledColumns(fargs) \/ i \notin Matching(fargs))
                  => ftable[c][i] = fargs.table[c][i]
        /\ Matching(fargs) = {} => (fret = 0 /\ ftable = fargs.table)

C6_Witness ==
    /\ FillDone
    /\ fret >= 1
    /\ fret < NFill
    /\ fargs.query.col = "K"
    /\ Len(fargs.values_to_fill) = 2
    /\ \E i \in Matching(fargs) :
          ftable["K"][i] # fargs.table["K"][i] /\ ftable["V"][i] # fargs.table["V"][i]
    /\ \E i \in 1..NFill :
          /\ i \notin Matching(fargs)
          /\ ftable["K"][i] = fargs.table["K"][i]
          /\ ftable["V"][i] = fargs.table["V"][i]

(***************************************************************************)
(* read_generic_spectra and the readers built on it                        *)
(* (read_observed.py:29-233)                                               *)
(*                                                                         *)
(* The directory is the list os.listdir returns; the file at position k    *)
(* has the name k.  A file is described by what the reader looks at: does  *)
(* its name end with the reader's extension, does it contain "conflicted   *)
(* copy", can Table.read read and parse it, the ZQUALITY of its rows, and  *)
(* its companion FITS file (present or not, and the observation time of    *)
(* its header).  Row r of file k carries SPEC_Z = 10 k + r, and the        *)
(* heliocentric correction of companion k is 100 k, so every value tells   *)
(* where it comes from.  Of the columns of usecols the model keeps SPEC_Z, *)
(* ZQUALITY and MASKNAME; every row passes the cuts on mag and SPECOBJID.  *)
(* ensure_specs_dtype and postprocess change the types and the units of    *)
(* columns, not the cells the model keeps.                                 *)
(***************************************************************************)
Readers == {"MMT", "AAT", "AAT_MZ", "IMACS"}

\* a reader that passes its own name as telname
telname_own(reader) == reader

\* telname, the third argument of read_generic_spectra
telname(reader) == IF reader = "AAT_MZ" THEN "AAT" ELSE reader

\* midprocess is passed by read_mmt, read_aat and read_aat_mz
has_midprocess(reader) == reader # "IMACS"

\* usecols names a MASKNAME column for read_imacs alone
reads_maskname(reader) == reader = "IMACS"

\* cuts: ZQUALITY >= 0, and ZQUALITY >= 1 for read_imacs
cuts(reader, zq) == IF reader = "IMACS" THEN zq >= 1 ELSE zq >= 0

\* the ZQUALITY column of a file
RowPatterns == {<<>>, <<-1>>, <<0, 1>>, <<1, -1, 1>>}

File(ext, conflicted, readable, zq, fits, obstime) ==
    [ext |-> ext, conflicted |-> conflicted, readable |-> readable,
     zq |-> zq, fits |-> fits, obstime |-> obstime]

Files ==
    { File(FALSE, FALSE, TRUE, <<1>>, FALSE, 0),    \* another extension
      File(TRUE, TRUE, TRUE, <<1>>, FALSE, 0),      \* a conflicted copy
      File(TRUE, FALSE, FALSE, <<>>, FALSE, 0) }    \* cannot be read or parsed
    \cup {File(TRUE, FALSE, TRUE, zq, FALSE, 0) : zq \in RowPatterns}
    \cup {File(TRUE, FALSE, TRUE, zq, TRUE, t) : zq \in RowPatterns, t \in 0..MaxTime}

\* before_time: None, or a time
BeforeTimes ==
    {[given |-> FALSE, time |-> 0]} \cup {[given |-> TRUE, time |-> t] : t \in 0..MaxTime}

\* None, as midprocess returns it
None == [None |-> TRUE]
IsNone(t) == "None" \in DOMAIN t

\* the number of rows of a table
len(t) == Len(t.SPEC_Z)

\* Table.read(..., names=names, exclude_names=exclude_names) on file k
TableRead(reader, k, f) ==
    LET n == Len(f.zq)
        t == [SPEC_Z |-> [r \in 1..n |-> 10 * k + r], ZQUALITY |-> f.zq]
    IN  IF reads_maskname(reader)
        THEN [c \in DOMAIN t \cup {"MASKNAME"} |->
                 IF c = "MASKNAME" THEN [r \in 1..n |-> 100 + k] ELSE t[c]]
        ELSE t

\* Query(cuts).filter(this)
Filter(reader, t) ==
    LET keep == SelectSeq([r \in 1..len(t) |-> r],
                          LAMBDA r : cuts(reader, t.ZQUALITY[r]))
    IN  [c \in DOMAIN t |-> [r \in 1..Len(keep) |-> t[c][keep[r]]]]

\* t[c] = v for a scalar v
SetColumnTo(t, c, v) ==
    [x \in DOMAIN t \cup {c} |-> IF x = c THEN [r \in 1..len(t) |-> v] ELSE t[x]]

\* heliocentric_correction(fits_filepath, ...): the correction of companion k
helio_corr(k) == 100 * k

\* a loop without the test of line 68: no file is skipped for its name
never_conflicted(f) == FALSE

\* "conflicted copy" in f
conflicted_copy(f) == f.conflicted

\* midprocess without line 135: the rows are flagged as corrected but the
\* correction is not added
midprocess_flag_only(t, dir, before_time) ==
    LET k == t.MASKNAME[1]
    IN  IF ~dir[k].fits
        THEN SetColumnTo(t, "HELIO_CORR", FALSE)
        ELSE IF before_time.given /\ dir[k].obstime > before_time.time
             THEN None
             ELSE SetColumnTo(t, "HELIO_CORR", TRUE)

\* midprocess of read_mmt, read_aat and read_aat_mz: the companion FITS file
\* is looked up under the name in t["MASKNAME"][0]; fits.getheader raises
\* IOError when it is absent.
midprocess(t, dir, before_time) ==
    LET k == t.MASKNAME[1]
    IN  IF ~dir[k].fits
        THEN SetColumnTo(t, "HELIO_CORR", FALSE)
        ELSE IF before_time.given /\ dir[k].obstime > before_time.time
             THEN None
             ELSE SetColumnTo([t EXCEPT !.SPEC_Z =
                                  [r \in 1..len(t) |-> t.SPEC_Z[r] + helio_corr(k)]],
                              "HELIO_CORR", TRUE)

RECURSIVE Stacked(_)
\* the rows of a list of tables of the same columns, one after the other
Stacked(tables) ==
    IF Len(tables) = 1 THEN tables[1]
    ELSE LET rest == Stacked(Tail(tables))
         IN  [c \in DOMAIN tables[1] |-> tables[1][c] \o rest[c]]

\* vstack(output, "exact"): raises on an empty list, on an entry that is no
\* table, and on tables whose columns differ
vstack(tables) ==
    IF Len(tables) = 0 THEN [raised |-> "ValueError"]
    ELSE IF \E n \in 1..Len(tables) : IsNone(tables[n]) THEN [raised |-> "TypeError"]
    ELSE IF \E n \in 1..Len(tables) : DOMAIN tables[n] # DOMAIN tables[1]
         THEN [raised |-> "TableMergeError"]
    ELSE Stacked(tables)

IdleRead ==
    /\ rargs = [reader |-> "none"]
    /\ ri = 0
    /\ output = <<>>
    /\ warned = {}
    /\ result = <<>>
    /\ rpc = "idle"

StartRead ==
    /\ rargs \in [reader : Readers, dir : [1..NFiles -> Files], before_time : BeforeTimes]
    /\ ri = 1
    /\ output = <<>>
    /\ warned = {}
    /\ result = <<>>
    /\ rpc = "loop"

\* one iteration of the loop over os.listdir(dir_path) (lines 65-99)
read_file ==
    /\ rpc = "loop"
    /\ ri <= NFiles
    /\ LET f == rargs.dir[ri]
           this == Filter(rargs.reader, TableRead(rargs.reader, ri, f))
           named == IF "MASKNAME" \notin DOMAIN this
                    THEN SetColumnTo(this, "MASKNAME", ri) ELSE this
           processed == IF has_midprocess(rargs.reader)
                        THEN midprocess(named, rargs.dir, rargs.before_time)
                        ELSE named
       IN  IF ~f.ext
           THEN UNCHANGED <<output, warned>>
           ELSE IF conflicted_copy(f) \/ ~f.readable
           THEN /\ warned' = warned \cup {ri}
                /\ UNCHANGED output
           ELSE IF len(this) = 0
           THEN UNCHANGED <<output, warned>>
           ELSE /\ output' = Append(output, processed)
                /\ UNCHANGED warned
    /\ ri' = ri + 1
    /\ UNCHANGED <<rargs, result, rpc, joinVars, fillVars, hostVars, downloadVars, casjobVars>>

\* after the loop (lines 101-106): stack, set TELNAME, return
read_return ==
    /\ rpc = "loop"
    /\ ri > NFiles
    /\ LET stacked == vstack(output)
       IN  IF "raised" \in DOMAIN stacked
           THEN /\ result' = stacked
                /\ rpc' = "raised"
           ELSE /\ result' = SetColumnTo(stacked, "TELNAME", telname(rargs.reader))
                /\ rpc' = "returned"
    /\ UNCHANGED <<rargs, ri, output, warned, joinVars, fillVars, hostVars, downloadVars, casjobVars>>

(***************************************************************************)
(* Claims about the readers.                                               *)
(***************************************************************************)
ReadEnded == rpc \in {"returned", "raised"}

\* file k has the reader's extension, is no conflicted copy and parses
WellFormed(k) ==
    rargs.dir[k].ext /\ ~rargs.dir[k].conflicted /\ rargs.dir[k].readable

\* the rows of file k that pass the reader's cuts
Survivors(k) ==
    {r \in 1..Len(rargs.dir[k].zq) : cuts(rargs.reader, rargs.dir[k].zq[r])}

\* the companion FITS file of file k is read and its observation time is
\* later than the cutoff
PastCutoff(k) ==
    /\ has_midprocess(rargs.reader)
    /\ rargs.dir[k].fits
    /\ rargs.before_time.given
    /\ rargs.dir[k].obstime > rargs.before_time.time

Excluded(k) == WellFormed(k) /\ Survivors(k) # {} /\ PastCutoff(k)

Contributes(k) == WellFormed(k) /\ Survivors(k) # {} /\ ~PastCutoff(k)

\* the SPEC_Z of the rows file k contributes: the value read, plus the
\* heliocentric correction when the reader applies one and the companion
\* file is there
ExpectedZ(k) ==
    LET keep == SelectSeq([r \in 1..Len(rargs.dir[k].zq) |-> r],
                          LAMBDA r : r \in Survivors(k))
        corr == IF has_midprocess(rargs.reader) /\ rargs.dir[k].fits
                THEN 100 * k ELSE 0
    IN  [n \in 1..Len(keep) |-> 10 * k + keep[n] + corr]

RECURSIVE ExpectedFrom(_)
\* the SPEC_Z column of the contributing files from position k on
ExpectedFrom(k) ==
    IF k > NFiles THEN <<>>
    ELSE (IF Contributes(k) THEN ExpectedZ(k) ELSE <<>>) \o ExpectedFrom(k + 1)

Unreadable(k) ==
    rargs.dir[k].ext /\ ~rargs.dir[k].conflicted /\ ~rargs.dir[k].readable

\* C7: in the readers that take a cutoff, a file observed later than the
\* cutoff contributes no rows, the reader still completes, and the rows of
\* every other file are returned unaffected.
C7_CutoffDropsFileOnly ==
    (/\ ReadEnded
     /\ \E k \in 1..NFiles : Excluded(k)
     /\ \E k \in 1..NFiles : Contributes(k)) =>
        /\ rpc = "returned"
        /\ result.SPEC_Z = ExpectedFrom(1)

\* what C8 says of a finished reader
ReadErrorOnlyWhenEmpty ==
    /\ rpc = "raised" <=> (\A k \in 1..NFiles : ~Contributes(k))
    /\ (\E k \in 1..NFiles : Contributes(k)) =>
          /\ rpc = "returned"
          /\ result.SPEC_Z = ExpectedFrom(1)
          /\ \A k \in 1..NFiles : Unreadable(k) => k \in warned

\* C8: a reader fails if and only if zero files contribute rows; whenever
\* at least one file contributes rows every unreadable file only produces
\* a warning and the reader returns the table of the contributing files.
C8_FailsIffNothingContributes == ReadEnded => ReadErrorOnlyWhenEmpty

\* C8 holds of the directories in which no file lies past the cutoff
C8_WithoutExcludedFile ==
    (ReadEnded /\ \A k \in 1..NFiles : ~Excluded(k)) => ReadErrorOnlyWhenEmpty

\* C9: a file that is a conflicted copy, or that cannot be read or parsed,
\* is skipped without raising: a warning is logged, nothing is appended for
\* it, an exception comes only from the stacking after the loop, and the
\* table returned holds the rows of the remaining well-formed files only.
C9_SkippedFilesContributeNothing ==
    rpc # "idle" =>
        /\ Len(output) = Cardinality({k \in 1..(ri - 1) :
                                         WellFormed(k) /\ Survivors(k) # {}})
        /\ \A k \in 1..(ri - 1) :
              (rargs.dir[k].ext /\ (rargs.dir[k].conflicted \/ ~rargs.dir[k].readable))
                  => k \in warned
        /\ rpc = "raised" =>
              /\ ri > NFiles
              /\ \/ output = <<>>
                 \/ \E n \in 1..Len(output) : IsNone(output[n])
        /\ rpc = "returned" => result.SPEC_Z = ExpectedFrom(1)

C9_Witness ==
    /\ rpc = "returned"
    /\ \E k \in 1..NFiles : rargs.dir[k].ext /\ rargs.dir[k].conflicted
    /\ \E k \in 1..NFiles : Contributes(k) /\ len(result) = Cardinality(Survivors(k))

\* C10: in the readers that apply a heliocentric correction every
\* contributing file is in the output with HELIO_CORR telling whether its
\* companion FITS file could be read: with the correction added to the
\* SPEC_Z of all its rows when it could, with SPEC_Z as read when the
\* companion file is absent.
C10_HelioCorrection ==
    (rpc # "idle" /\ has_midprocess(rargs.reader)) =>
        /\ \A k \in 1..(ri - 1) :
              Contributes(k) =>
                  \E n \in 1..Len(output) :
                      /\ ~IsNone(output[n])
                      /\ output[n].MASKNAME[1] = k
                      /\ output[n].SPEC_Z = ExpectedZ(k)
                      /\ \A r \in 1..len(output[n]) :
                            output[n].HELIO_CORR[r] = rargs.dir[k].fits
        /\ rpc = "returned" =>
              \A r \in 1..len(result) :
                  LET k == result.MASKNAME[r]
                  IN  /\ result.HELIO_CORR[r] = rargs.dir[k].fits
                      /\ \E n \in 1..Len(ExpectedZ(k)) : result.SPEC_Z[r] = ExpectedZ(k)[n]

C10_Witness ==
    /\ rpc = "returned"
    /\ has_midprocess(rargs.reader)
    /\ \E k, m \in 1..NFiles :
          /\ Contributes(k) /\ rargs.dir[k].fits
          /\ Contributes(m) /\ ~rargs.dir[m].fits
    /\ \E r, q \in 1..len(result) :
          /\ result.HELIO_CORR[r] /\ result.SPEC_Z[r] > 100
          /\ ~result.HELIO_CORR[q] /\ result.SPEC_Z[q] < 100

\* the name of the file row r of the result was read from: SPEC_Z is
\* 10 k + r, plus 100 k when the heliocentric correction was added
FileOfRow(r) == (result.SPEC_Z[r] % 100) \div 10

\* the telescope name of each reader (read_observed.py:146, 177, 218, 233)
TelescopeOf(reader) ==
    CASE reader = "MMT" -> "MMT"
      [] reader = "AAT" -> "AAT"
      [] reader = "AAT_MZ" -> "AAT"
      [] reader = "IMACS" -> "IMACS"

\* C11 as stated: every row a reader returns carries the reader's telescope
\* name as TELNAME and the name of the file it was read from as MASKNAME,
\* for MMT, AAT, AAT-mz and IMACS alike.
C11_Original ==
    rpc = "returned" =>
        \A r \in 1..len(result) :
            /\ result.TELNAME[r] = TelescopeOf(rargs.reader)
            /\ result.MASKNAME[r] = FileOfRow(r)

\* C11, amended: every row a reader returns carries the reader's telescope
\* name as TELNAME; its MASKNAME is the name of the file it was read from
\* for MMT, AAT and AAT-mz, and for IMACS the value of the MASKNAME column
\* the file itself holds for that row (column 11 of usecols).
C11_TelnameAndMaskname ==
    rpc = "returned" =>
        \A r \in 1..len(result) :
            /\ result.TELNAME[r] = TelescopeOf(rargs.reader)
            /\ result.MASKNAME[r] =
                  IF rargs.reader = "IMACS"
                  THEN TableRead("IMACS", FileOfRow(r), rargs.dir[FileOfRow(r)]).MASKNAME[1]
                  ELSE FileOfRow(r)

\* an IMACS call returns rows of two files
C11_Witness ==
    /\ rpc = "returned"
    /\ rargs.reader = "IMACS"
    /\ \E r, q \in 1..len(result) :
          /\ FileOfRow(r) # FileOfRow(q)
          /\ result.TELNAME[r] = TelescopeOf(rargs.reader)
          /\ result.MASKNAME[r] # result.MASKNAME[q]

(***************************************************************************)
(* HostCatalog (host_catalog.py:36-142)                                    *)
(*                                                                         *)
(* An argument of resolve_id is an int, a str or a list of arguments.  The *)
(* strings are those of a small vocabulary, on which str.lower and int are *)
(* given by their tables.  A returned list is held by the caller, who may  *)
(* modify it in place; hshared tells that it is the very list object the   *)
(* catalog keeps in _all_host_ids.                                         *)
(***************************************************************************)
IntToken(n) == [kind |-> "int", int |-> n, str |-> "", items |-> <<>>]
StrToken(s) == [kind |-> "str", int |-> 0, str |-> s, items |-> <<>>]
ListToken(xs) == [kind |-> "list", int |-> 0, str |-> "", items |-> xs]

\* str.lower() on the vocabulary
lower(s) ==
    CASE s = "ALL" -> "all"
      [] s = "Paper1" -> "paper1"
      [] s = "PAPER1_Complete" -> "paper1_complete"
      [] s = "AnaK" -> "anak"
      [] s = "anaK" -> "anak"
      [] s = "NoSuch" -> "nosuch"
      [] OTHER -> s

\* the strings int() accepts, and their values
Numerals == [s \in {"61945", "007"} |-> IF s = "007" THEN 7 ELSE 61945]

\* int(hosts): the value, or TypeError / ValueError
int(hosts) ==
    CASE hosts.kind = "int" -> [raised |-> "", value |-> hosts.int]
      [] hosts.kind = "list" -> [raised |-> "TypeError", value |-> 0]
      [] hosts.kind = "str" ->
            IF hosts.str \in DOMAIN Numerals
            THEN [raised |-> "", value |-> Numerals[hosts.str]]
            ELSE [raised |-> "ValueError", value |-> 0]

_paper1_complete_hosts ==
    <<166313, 147100, 165536, 61945, 132339, 149781, 33446, 150887>>
_paper1_incomplete_hosts ==
    <<161174, 85746, 145729, 140594, 126115, 13927, 137625, 129237>>

\* the tables of the database the catalog reads: hosts_no_flags (NSAID) and
\* hosts_named (SAGA, NSA)
Database ==
    [hosts_no_flags |-> [NSAID |-> <<61945, 147100, 12345>>],
     hosts_named |-> [SAGA |-> <<"AnaK", "Odyssey">>, NSA |-> <<61945, 147100>>]]

\* dict(zip(keys, values))
DictZip(keys, values) ==
    [k \in {keys[n] : n \in 1..Len(keys)} |->
        values[CHOOSE n \in 1..Len(keys) :
                  keys[n] = k /\ \A m \in n+1..Len(keys) : keys[m] # k]]

\* HostCatalog.__init__
HostCatalog(database) ==
    LET t == database.hosts_named
    IN  [all_host_ids |-> database.hosts_no_flags.NSAID,
         host_name_to_id |-> DictZip([n \in 1..Len(t.SAGA) |-> lower(t.SAGA[n])], t.NSA),
         host_id_to_name |-> DictZip(t.NSA, t.SAGA)]

\* a value returned; shared tells that the list is the catalog's own object
Returned(value, shared) ==
    [raised |-> "", value |-> value, message |-> "", shared |-> shared]

\* an else branch that gives up silently
resolves_to_nothing(hosts) == Returned(<<>>, FALSE)

\* raise ValueError('cannot resolve {}'.format(hosts))
cannot_resolve(hosts) ==
    [raised |-> "ValueError", value |-> <<>>, message |-> hosts, shared |-> FALSE]

\* a paper1 list in the other order
paper1_incomplete_first(complete, incomplete) == incomplete \o complete

\* list(self._paper1_complete_hosts + self._paper1_incomplete_hosts)
paper1_hosts(complete, incomplete) == complete \o incomplete

\* an extend that skips the IDs the list already holds
extend_new(out, more) ==
    out \o SelectSeq(more, LAMBDA x : \A n \in 1..Len(out) : out[n] # x)

\* out.extend(more)
extend(out, more) == out \o more

RECURSIVE resolve_id(_, _)
RECURSIVE resolve_each(_, _, _)
\* the loop of lines 99-102 over the elements not yet resolved
resolve_each(self, hosts, out) ==
    IF hosts = <<>> THEN Returned(out, FALSE)
    ELSE LET r == resolve_id(self, Head(hosts))
         IN  IF r.raised # "" THEN [r EXCEPT !.shared = FALSE]
             ELSE resolve_each(self, Tail(hosts), extend(out, r.value))

\* HostCatalog.resolve_id
resolve_id(self, hosts) ==
    IF int(hosts).raised = "" THEN Returned(<<int(hosts).value>>, FALSE)
    ELSE IF hosts.kind = "str"
    THEN LET h == lower(hosts.str)
         IN  CASE h = "all" -> Returned(self.all_host_ids, TRUE)
               [] h = "paper1_complete" -> Returned(_paper1_complete_hosts, FALSE)
               [] h = "paper1_incomplete" -> Returned(_paper1_incomplete_hosts, FALSE)
               [] h = "paper1" ->
                     Returned(paper1_hosts(_paper1_complete_hosts,
                                           _paper1_incomplete_hosts), FALSE)
               [] OTHER ->
                     IF lower(h) \in DOMAIN self.host_name_to_id
                     THEN Returned(<<self.host_name_to_id[lower(h)]>>, FALSE)
                     ELSE cannot_resolve(h)
    ELSE resolve_each(self, hosts.items, <<>>)

\* the strings a caller passes
Vocabulary ==
    {"all", "ALL", "paper1", "Paper1", "paper1_complete", "PAPER1_Complete",
     "paper1_incomplete", "AnaK", "anaK", "odyssey", "NoSuch", "nosuch",
     "61945", "007"}

Tokens == {IntToken(12345)} \cup {StrToken(s) : s \in Vocabulary}

\* the elements of the lists a caller passes
ListElements ==
    {IntToken(12345), StrToken("AnaK"), StrToken("NoSuch"), StrToken("all"),
     StrToken("007"), ListToken(<<StrToken("anaK"), IntToken(12345)>>)}

Arguments ==
    Tokens \cup {ListToken(xs) : xs \in UNION {[1..m -> ListElements] : m \in 0..MaxList}}

\* the IDs a caller asks the name of
HostIds == {61945, 12345}

IdleHost ==
    /\ hcat = <<>>
    /\ hcall = [op |-> "none"]
    /\ hret = <<>>
    /\ hshared = FALSE
    /\ hpc = "idle"

\* the catalog has been constructed
StartHost ==
    /\ hcat = HostCatalog(Database)
    /\ hcall = [op |-> "__init__"]
    /\ hret = <<>>
    /\ hshared = FALSE
    /\ hpc = "ready"

\* a call saga_hosts.resolve_id(hosts)
call_resolve_id ==
    /\ hpc # "idle"
    /\ \E hosts \in Arguments :
          LET r == resolve_id(hcat, hosts)
          IN  /\ hcall' = [op |-> "resolve_id", arg |-> hosts]
              /\ hret' = [raised |-> r.raised, value |-> r.value, message |-> r.message]
              /\ hshared' = r.shared
    /\ hpc' = "returned"
    /\ UNCHANGED <<hcat, joinVars, fillVars, readVars, downloadVars, casjobVars>>

\* a call saga_hosts.id_to_name(host_id)
call_id_to_name ==
    /\ hpc # "idle"
    /\ \E host_id \in HostIds :
          /\ hcall' = [op |-> "id_to_name", arg |-> host_id]
          /\ hret' = [raised |-> "", message |-> "",
                      value |-> Get(hcat.host_id_to_name, host_id, None)]
    /\ hshared' = FALSE
    /\ hpc' = "returned"
    /\ UNCHANGED <<hcat, joinVars, fillVars, readVars, downloadVars, casjobVars>>

\* a call saga_hosts.load('no_flags', reload)
call_load ==
    /\ hpc # "idle"
    /\ \E reload \in BOOLEAN :
          /\ hcall' = [op |-> "load", arg |-> reload]
          /\ hret' = [raised |-> "", message |-> "", value |-> Database.hosts_no_flags]
    /\ hshared' = FALSE
    /\ hpc' = "returned"
    /\ UNCHANGED <<hcat, joinVars, fillVars, readVars, downloadVars, casjobVars>>

\* the list resolve_id returned, modified in place by the caller; the
\* catalog's list changes with it when the two are one object
Modified(ids) ==
    /\ hret' = [hret EXCEPT !.value = ids]
    /\ hcat' = IF hshared THEN [hcat EXCEPT !.all_host_ids = ids] ELSE hcat
    /\ hpc' = "modified"
    /\ UNCHANGED <<hcall, hshared, joinVars, fillVars, readVars, downloadVars, casjobVars>>

\* the caller runs `del ids[:]` on the list resolve_id returned
caller_clear ==
    /\ hpc \in {"returned", "modified"}
    /\ hcall.op = "resolve_id" /\ hret.raised = ""
    /\ hret.value # <<>>
    /\ Modified(<<>>)

\* the caller runs `ids[0] = 0` on the list resolve_id returned
caller_setitem ==
    /\ hpc \in {"returned", "modified"}
    /\ hcall.op = "resolve_id" /\ hret.raised = ""
    /\ hret.value # <<>> /\ hret.value[1] # 0
    /\ Modified([hret.value EXCEPT ![1] = 0])

(***************************************************************************)
(* Claims about HostCatalog.                                               *)
(***************************************************************************)
\* resolve_id has just returned or raised; the caller has not touched the
\* result
Resolved == hpc = "returned" /\ hcall.op = "resolve_id"

\* two strings equal in any letter case
SameInAnyCase(a, b) == lower(a) = lower(b)

\* the string is a number as int() reads it
Numeric(s) == s \in DOMAIN Numerals

\* the string names one of the four special lists, in any letter case
SpecialName(s) ==
    \E n \in {"all", "paper1", "paper1_complete", "paper1_incomplete"} :
        SameInAnyCase(s, n)

\* the string is a host name of hosts_named, in any letter case
KnownHost(s) ==
    \E n \in 1..Len(Database.hosts_named.SAGA) :
        SameInAnyCase(s, Database.hosts_named.SAGA[n])

Unresolvable(s) == ~Numeric(s) /\ ~SpecialName(s) /\ ~KnownHost(s)

RECURSIVE FirstUnresolvable(_)
\* the first unresolvable string among the elements, in the order they are
\* resolved; "" when there is none
FirstUnresolvable(items) ==
    IF items = <<>> THEN ""
    ELSE LET x == Head(items)
             here == CASE x.kind = "str" -> IF Unresolvable(x.str) THEN x.str ELSE ""
                       [] x.kind = "list" -> FirstUnresolvable(x.items)
                       [] OTHER -> ""
         IN  IF here # "" THEN here ELSE FirstUnresolvable(Tail(items))

RECURSIVE EachResolved(_)
\* what resolving each element on its own returns, one result after the other
EachResolved(items) ==
    IF items = <<>> THEN <<>>
    ELSE resolve_id(hcat, Head(items)).value \o EachResolved(Tail(items))

\* C12: resolve_id on a list returns the concatenation, in input order and
\* without deduplication, of what resolving each element returns; an int or
\* a numeric string resolves to the one-element list of that integer, and
\* resolve_id([12345, 'AnaK']) is [12345, 61945].
C12_ListConcatenates ==
    Resolved =>
        /\ hcall.arg.kind = "int" =>
              hret.raised = "" /\ hret.value = <<hcall.arg.int>>
        /\ (hcall.arg.kind = "str" /\ Numeric(hcall.arg.str)) =>
              hret.raised = "" /\ hret.value = <<Numerals[hcall.arg.str]>>
        /\ (hcall.arg.kind = "list" /\ FirstUnresolvable(hcall.arg.items) = "") =>
              hret.raised = "" /\ hret.value = EachResolved(hcall.arg.items)
        /\ hcall.arg = ListToken(<<IntToken(12345), StrToken("AnaK")>>) =>
              hret.value = <<12345, 61945>>

\* a list that names the same host twice, after another host
C12_Witness ==
    /\ Resolved
    /\ hcall.arg.kind = "list" /\ Len(hcall.arg.items) = MaxList
    /\ hcall.arg.items[1].kind = "str"
    /\ hcall.arg.items[MaxList].kind = "list"
    /\ Len(hret.value) = 3
    /\ hret.value[1] = hret.value[2]
    /\ hret.value[3] # hret.value[1]

\* C13 as stated: resolve_id on a string that is not numeric, not a special
\* list name and not a known host name fails with an error naming the token
\* as the caller supplied it; in a list the error propagates and no partial
\* list is returned.
C13_Original ==
    Resolved =>
        /\ (hcall.arg.kind = "str" /\ Unresolvable(hcall.arg.str)) =>
              /\ hret.raised = "ValueError"
              /\ hret.message = hcall.arg.str
        /\ (hcall.arg.kind = "list" /\ FirstUnresolvable(hcall.arg.items) # "") =>
              /\ hret.raised = "ValueError"
              /\ hret.message = FirstUnresolvable(hcall.arg.items)
              /\ hret.value = <<>>

\* C13, amended: such a string fails with a ValueError naming the token
\* converted to lower case; in a list the error of the first such element
\* propagates and no partial list is returned.
C13_NamesLowercasedToken ==
    Resolved =>
        /\ (hcall.arg.kind = "str" /\ Unresolvable(hcall.arg.str)) =>
              /\ hret.raised = "ValueError"
              /\ hret.message = lower(hcall.arg.str)
        /\ (hcall.arg.kind = "list" /\ FirstUnresolvable(hcall.arg.items) # "") =>
              /\ hret.raised = "ValueError"
              /\ hret.message = lower(FirstUnresolvable(hcall.arg.items))
              /\ hret.value = <<>>

\* a list whose first element resolves and whose last is unknown and mixed
\* in case
C13_Witness ==
    /\ Resolved
    /\ hcall.arg.kind = "list" /\ Len(hcall.arg.items) = MaxList
    /\ hcall.arg.items[1] = IntToken(12345)
    /\ hcall.arg.items[MaxList] = StrToken("NoSuch")
    /\ hret.raised = "ValueError"
    /\ hret.message = "nosuch"

\* C14: resolve_id('paper1') returns the paper1_complete IDs followed by the
\* paper1_incomplete IDs, 16 IDs, and equals resolve_id('paper1_complete')
\* followed by resolve_id('paper1_incomplete').
C14_Paper1 ==
    (Resolved /\ hcall.arg.kind = "str" /\ lower(hcall.arg.str) = "paper1") =>
        /\ hret.raised = ""
        /\ Len(hret.value) = 16
        /\ hret.value =
              <<166313, 147100, 165536, 61945, 132339, 149781, 33446, 150887,
                161174, 85746, 145729, 140594, 126115, 13927, 137625, 129237>>
        /\ hret.value = resolve_id(hcat, StrToken("paper1_complete")).value
                        \o resolve_id(hcat, StrToken("paper1_incomplete")).value

C14_Witness ==
    /\ Resolved
    /\ hcall.arg = StrToken("Paper1")
    /\ Len(hret.value) = 16
    /\ hret.value[1] = 166313 /\ hret.value[16] = 129237

\* C15: once the catalog is constructed, its list of all host IDs and its
\* two name maps are never changed, whatever resolve_id, id_to_name and load
\* calls are made and whatever the caller does to a list resolve_id returned.
C15_CachesNeverChange ==
    hpc # "idle" => hcat = HostCatalog(Database)

(***************************************************************************)
(* download_catalogs_for_hosts, SdssQuery.download_as_file and             *)
(* SdssQuery.run_casjobs_with_casjobs (external.py:163-170, 242-261,       *)
(* 337-360)                                                                *)
(*                                                                         *)
(* Host i of the list has the output file i and the staging table i.  The  *)
(* query class is set up to run with casjobs (_HAS_CASJOBS_ is true and    *)
(* use_sciserver false).  cjob.monitor returns once the job is in a        *)
(* terminal state: 3 cancelled, 4 failed, 5 finished; the query writes its *)
(* rows INTO the staging table, which exists once the job has finished.    *)
(* Opening the output file and fetching the output may fail with IOError.  *)
(* dlog is the sequence of the calls made and of the exceptions caught.    *)
(***************************************************************************)
\* no file at the path
NoFile == -1

\* sizes in bytes of the files found and of the files downloaded
FileSizes == {999999, 1000000}

\* file_size_check as the caller passes it; 1e6 is the default
SizeChecks == {500000, 1000000, 2000000}

\* the literal of line 355
SizeLiteral == 1000000

Event(host, op, n) == [host |-> host, op |-> op, n |-> n]

\* an except clause for IOError and OSError alone
CaughtIOErrors == {"IOError", "OSError"}

\* except (IOError, OSError, RuntimeError)
Caught == {"IOError", "OSError", "RuntimeError"}

\* a cleanup that runs only when the fetch returned
only_on_success(raised) == raised = ""

\* try ... finally: the cleanup runs whether the fetch raised or not
finally(raised) == TRUE

\* os.path.getsize(path) < 1e6
below_size(size) == size < SizeLiteral

IdleDownload ==
    /\ dargs = [overwrite |-> FALSE]
    /\ files = <<>>
    /\ di = 0
    /\ failed = <<>>
    /\ dexc = ""
    /\ mydb = {}
    /\ dlog = <<>>
    /\ dpc = "idle"

\* line 337 is done and the loop is at its first host
StartDownload ==
    /\ \E overwrite \in BOOLEAN, file_size_check \in SizeChecks :
          dargs = [overwrite |-> overwrite, file_size_check |-> file_size_check]
    /\ files \in [1..NHosts -> {NoFile} \cup FileSizes]
    /\ di = 1
    /\ failed = [i \in 1..NHosts |-> FALSE]
    /\ dexc = ""
    /\ mydb = {}
    /\ dlog = <<>>
    /\ dpc = "host"

\* an exception e leaves download_as_file: the except clause of lines
\* 350-353 when it catches e, and the end of the call when it does not
Raise(e, log) ==
    IF e \in Caught
    THEN /\ failed' = [failed EXCEPT ![di] = TRUE]
         /\ di' = di + 1
         /\ dpc' = "host"
         /\ dlog' = Append(log, Event(di, e, 0))
    ELSE /\ dpc' = "propagated"
         /\ dlog' = log
         /\ UNCHANGED <<failed, di>>

\* lines 339-349 and 163-170, 245-247: download_as_file is called for the
\* next host; it returns at once when the file is there and overwrite is
\* false, and submits the job otherwise
download_as_file ==
    /\ dpc = "host"
    /\ di <= NHosts
    /\ IF files[di] # NoFile /\ ~dargs.overwrite
       THEN /\ dpc' = "else"
            /\ dlog' = Append(dlog, Event(di, "call", 0))
       ELSE /\ dpc' = "monitor"
            /\ dlog' = dlog \o <<Event(di, "call", 0), Event(di, "submit", 0)>>
    /\ UNCHANGED <<dargs, files, di, failed, dexc, mydb>>
    /\ UNCHANGED <<joinVars, fillVars, readVars, hostVars, casjobVars>>

\* lines 250-253: cjob.monitor returns the terminal state of the job
monitor ==
    /\ dpc = "monitor"
    /\ \E reported \in {3, 4, 5} :
          LET log == Append(dlog, Event(di, "monitor", reported))
          IN  IF reported = 3 \/ reported = 4
              THEN /\ Raise("RuntimeError", log)
                   /\ UNCHANGED mydb
              ELSE /\ mydb' = mydb \cup {di}
                   /\ dpc' = "open"
                   /\ dlog' = log
                   /\ UNCHANGED <<failed, di>>
    /\ UNCHANGED <<dargs, files, dexc>>
    /\ UNCHANGED <<joinVars, fillVars, readVars, hostVars, casjobVars>>

\* lines 256-257: the output file is opened for writing, which empties it
file_open ==
    /\ dpc = "open"
    /\ \/ /\ files' = [files EXCEPT ![di] = 0]
          /\ dpc' = "fetch"
          /\ dlog' = Append(dlog, Event(di, "open", 0))
          /\ UNCHANGED <<failed, di>>
       \/ /\ Raise("IOError", dlog)
          /\ UNCHANGED files
    /\ UNCHANGED <<dargs, dexc, mydb>>
    /\ UNCHANGED <<joinVars, fillVars, readVars, hostVars, casjobVars>>

\* lines 258-259: the output of the job is requested and written
request_and_get_output ==
    /\ dpc = "fetch"
    /\ \/ \E size \in FileSizes :
             /\ files' = [files EXCEPT ![di] = size]
             /\ dexc' = ""
             /\ dlog' = dlog \o <<Event(di, "fetch", 0), Event(di, "output", size)>>
       \/ /\ dexc' = "IOError"
          /\ dlog' = Append(dlog, Event(di, "fetch", 0))
          /\ UNCHANGED files
    /\ dpc' = "finally"
    /\ UNCHANGED <<dargs, di, failed, mydb>>
    /\ UNCHANGED <<joinVars, fillVars, readVars, hostVars, casjobVars>>

\* lines 260-261: the finally clause drops the staging table; then the
\* exception of the fetch, if any, goes on
drop_table ==
    /\ dpc = "finally"
    /\ LET dropped == finally(dexc)
           log == IF dropped THEN Append(dlog, Event(di, "drop", 0)) ELSE dlog
       IN  /\ mydb' = IF dropped THEN mydb \ {di} ELSE mydb
           /\ IF dexc = ""
              THEN /\ dpc' = "else"
                   /\ dlog' = log
                   /\ UNCHANGED <<failed, di>>
              ELSE Raise(dexc, log)
    /\ dexc' = ""
    /\ UNCHANGED <<dargs, files>>
    /\ UNCHANGED <<joinVars, fillVars, readVars, hostVars, casjobVars>>

\* lines 354-358: download_as_file returned; the size of the file is checked
getsize ==
    /\ dpc = "else"
    /\ IF below_size(files[di])
       THEN /\ files' = [files EXCEPT ![di] = NoFile]
            /\ failed' = [failed EXCEPT ![di] = TRUE]
            /\ dlog' = Append(dlog, Event(di, "unlink", 0))
       ELSE UNCHANGED <<files, failed, dlog>>
    /\ di' = di + 1
    /\ dpc' = "host"
    /\ UNCHANGED <<dargs, dexc, mydb>>
    /\ UNCHANGED <<joinVars, fillVars, readVars, hostVars, casjobVars>>

\* line 360
return_failed ==
    /\ dpc = "host"
    /\ di > NHosts
    /\ dpc' = "done"
    /\ UNCHANGED <<dargs, files, di, failed, dexc, mydb, dlog>>
    /\ UNCHANGED <<joinVars, fillVars, readVars, hostVars, casjobVars>>

(***************************************************************************)
(* Claims about download_catalogs_for_hosts and run_casjobs_with_casjobs.  *)
(***************************************************************************)
\* the positions of dlog where op was done for host i
Events(i, op) == {n \in 1..Len(dlog) : dlog[n].host = i /\ dlog[n].op = op}

\* the remote job of host i ended cancelled or failed
JobCancelledOrFailed(i) ==
    \E n \in Events(i, "monitor") : dlog[n].n \in {3, 4}

\* the download of host i failed: its job was cancelled or failed, or
\* writing the file raised
DownloadFailed(i) ==
    JobCancelledOrFailed(i) \/ Events(i, "IOError") # {} \/ Events(i, "OSError") # {}

\* C16: the hosts are processed one at a time in input order, each at most
\* once; a failed download (a cancelled or failed job included) sets the
\* entry of that host in failed and of no other host, every later host is
\* still attempted, and the call returns failed with one entry per host.
C16_EveryHostAttemptedOnce ==
    /\ dpc # "propagated"
    /\ \A n, m \in 1..Len(dlog) : n < m => dlog[n].host <= dlog[m].host
    /\ \A i \in 1..NHosts :
          /\ Cardinality(Events(i, "call")) <= 1
          /\ Cardinality(Events(i, "submit")) <= 1
          /\ (dpc # "idle" /\ DownloadFailed(i) /\ di > i) => failed[i]
    /\ dpc = "done" =>
          /\ Len(failed) = NHosts
          /\ \A i \in 1..NHosts :
                /\ Cardinality(Events(i, "call")) = 1
                /\ failed[i] => (DownloadFailed(i) \/ Events(i, "unlink") # {})

\* the job of the first host was cancelled or failed, and the last host
\* was downloaded after it
C16_Witness ==
    /\ dpc = "done"
    /\ JobCancelledOrFailed(1)
    /\ failed[1] /\ ~failed[NHosts]
    /\ Events(NHosts, "output") # {}

\* the size of the file a download of this call wrote for host i
Downloaded(i) == {dlog[n].n : n \in Events(i, "output")}

\* C17: the file of a host is deleted and the host marked failed exactly
\* when a download for it completed in this call and the file it wrote is
\* smaller than file_size_check; a file that was already there and was not
\* downloaded again is never deleted.
C17_DeletedIffBelowThreshold ==
    dpc = "done" =>
        \A i \in 1..NHosts :
            /\ (Events(i, "unlink") # {} /\ failed[i])
                  <=> (\E size \in Downloaded(i) : size < dargs.file_size_check)
            /\ Events(i, "submit") = {} => Events(i, "unlink") = {}

\* the run of run_casjobs_with_casjobs for host i has ended
RunEnded(i) == di > i \/ (di = i /\ dpc = "else")

\* the steps of the run of host i happen in the order submit, monitor,
\* fetch, drop, the fetch only after the job is reported finished, and the
\* staging table is dropped once, after the fetch, for every attempted
\* fetch
StepsInOrder(i) ==
    /\ \A s \in Events(i, "submit"), m \in Events(i, "monitor") : s < m
    /\ \A m \in Events(i, "monitor"), f \in Events(i, "fetch") : m < f
    /\ \A f \in Events(i, "fetch"), d \in Events(i, "drop") : f < d
    /\ Events(i, "fetch") # {} =>
          \E m \in Events(i, "monitor") : dlog[m].n = 5
    /\ Events(i, "monitor") # {} => Events(i, "submit") # {}
    /\ Cardinality(Events(i, "drop")) <= Cardinality(Events(i, "fetch"))
    /\ Cardinality(Events(i, "fetch")) <= 1
    /\ RunEnded(i) =>
          Cardinality(Events(i, "drop")) = Cardinality(Events(i, "fetch"))

\* C19 as stated: the steps happen in that order, the table is dropped once
\* after every attempted fetch, and no run that submitted a job ends with
\* the staging table left undropped.
C19_Original ==
    dpc # "idle" =>
        \A i \in 1..NHosts :
            /\ StepsInOrder(i)
            /\ (RunEnded(i) /\ Events(i, "submit") # {}) => i \notin mydb

\* C19, amended: the steps happen in that order, the fetch only after the
\* job is reported finished, and the table is dropped once after every
\* attempted fetch, whether it returned or raised; a run that submitted a
\* job ends with the staging table left on the server exactly when its job
\* finished and no fetch was attempted, because the output file could not
\* be opened.
C19_DropAfterEveryFetch ==
    dpc # "idle" =>
        \A i \in 1..NHosts :
            /\ StepsInOrder(i)
            /\ (RunEnded(i) /\ Events(i, "submit") # {}) =>
                  (i \in mydb <=>
                      /\ \E m \in Events(i, "monitor") : dlog[m].n = 5
                      /\ Events(i, "fetch") = {})

\* one run whose fetch raised and one whose fetch returned, both dropped
C19_Witness ==
    /\ dpc = "done"
    /\ \E i, j \in 1..NHosts :
          /\ Events(i, "fetch") # {} /\ Events(i, "output") = {}
          /\ Events(i, "drop") # {} /\ i \notin mydb
          /\ Events(j, "output") # {} /\ Events(j, "drop") # {} /\ j \notin mydb

(***************************************************************************)
(* run_casjob (objects/sdss.py:53-80)                                      *)
(*                                                                         *)
(* The environment holds CASJOBS_WSID and CASJOBS_PW.  The job on the      *)
(* server goes through the states of the CasJobs service: 0 ready,         *)
(* 1 started, 2 cancelling, 3 cancelled, 4 failed, 5 finished; 3, 4 and 5  *)
(* are terminal.  The query writes INTO the staging table, which exists    *)
(* once the job has finished.                                              *)
(***************************************************************************)
\* code = None, as a token no state of a job is equal to
NoCode == -1

\* the states of a job that do not change any more
Terminal == {3, 4, 5}

\* while code != 5
while_code(c) == c # 5

IdleCasjob ==
    /\ cargs = [overwrite |-> FALSE]
    /\ remote = NoCode
    /\ code = NoCode
    /\ ctable = FALSE
    /\ cout = <<>>
    /\ cpc = "idle"

\* run_casjob is called; cout tells which of output_path and
\* output_path + '.tmp' exist
StartCasjob ==
    /\ cargs \in [overwrite : BOOLEAN, compress : BOOLEAN]
    /\ remote = NoCode
    /\ code = NoCode
    /\ ctable = FALSE
    /\ cout \in [out : BOOLEAN, tmp : {FALSE}]
    /\ cpc = "call"

\* lines 64-66: the job is submitted unless the file is there and
\* overwrite is false
submit ==
    /\ cpc = "call"
    /\ IF cargs.overwrite \/ ~cout.out
       THEN /\ remote' = 0
            /\ cpc' = "while"
       ELSE /\ cpc' = "done"
            /\ UNCHANGED remote
    /\ UNCHANGED <<cargs, code, ctable, cout>>
    /\ UNCHANGED <<joinVars, fillVars, readVars, hostVars, downloadVars>>

\* the service works on the job
service ==
    /\ remote # NoCode
    /\ remote \notin Terminal
    /\ \E next \in 1..5 :
          /\ \/ remote = 0 /\ next = 1
             \/ remote = 1 /\ next \in {2, 4, 5}
             \/ remote = 2 /\ next = 3
          /\ remote' = next
          /\ ctable' = (next = 5)
    /\ UNCHANGED <<cargs, code, cout, cpc>>
    /\ UNCHANGED <<joinVars, fillVars, readVars, hostVars, downloadVars>>

\* line 68: the test of the loop
while ==
    /\ cpc = "while"
    /\ cpc' = IF while_code(code) THEN "sleep" ELSE "fetch"
    /\ UNCHANGED <<cargs, remote, code, ctable, cout>>
    /\ UNCHANGED <<joinVars, fillVars, readVars, hostVars, downloadVars>>

\* lines 69-70: time.sleep(10); code, status = cjob.status(job_id)
status ==
    /\ cpc = "sleep"
    /\ code' = remote
    /\ cpc' = "while"
    /\ UNCHANGED <<cargs, remote, ctable, cout>>
    /\ UNCHANGED <<joinVars, fillVars, readVars, hostVars, downloadVars>>

\* line 75: the output is written to output_path_tmp, which is output_path
\* when compress is false
fetch_output ==
    /\ cpc = "fetch"
    /\ cout' = IF cargs.compress THEN [cout EXCEPT !.tmp = TRUE]
               ELSE [cout EXCEPT !.out = TRUE]
    /\ cpc' = "drop"
    /\ UNCHANGED <<cargs, remote, code, ctable>>
    /\ UNCHANGED <<joinVars, fillVars, readVars, hostVars, downloadVars>>

\* lines 76-80: the staging table is dropped and the output compressed
drop_and_compress ==
    /\ cpc = "drop"
    /\ ctable' = FALSE
    /\ cout' = IF cargs.compress THEN [cout EXCEPT !.out = TRUE] ELSE cout
    /\ cpc' = "done"
    /\ UNCHANGED <<cargs, remote, code>>
    /\ UNCHANGED <<joinVars, fillVars, readVars, hostVars, downloadVars>>

(***************************************************************************)
(* Claims about the remote-job runs.                                       *)
(***************************************************************************)
\* C18: a remote-job run stops polling once the job has reached a terminal
\* state: after a finished job it goes on to the fetch, and after a
\* cancelled or failed job it ends with an error; it never goes back to
\* wait and poll again once the service has reported 3, 4 or 5.
C18_StopsPollingOnTerminal ==
    cpc = "sleep" => code \notin Terminal

(***************************************************************************)
(* The specifications.                                                     *)
(***************************************************************************)
InitJoin == StartJoin /\ IdleFill /\ IdleRead /\ IdleHost /\ IdleDownload /\ IdleCasjob
NextJoin == join_table_by_coordinates
SpecJoin == InitJoin /\ [][NextJoin]_vars

InitFill == StartFill /\ IdleJoin /\ IdleRead /\ IdleHost /\ IdleDownload /\ IdleCasjob
NextFill == fill_values_by_query
SpecFill == InitFill /\ [][NextFill]_vars

InitRead == StartRead /\ IdleJoin /\ IdleFill /\ IdleHost /\ IdleDownload /\ IdleCasjob
NextRead == read_file \/ read_return
SpecRead == InitRead /\ [][NextRead]_vars

InitHost == StartHost /\ IdleJoin /\ IdleFill /\ IdleRead /\ IdleDownload /\ IdleCasjob
NextHost ==
    \/ call_resolve_id
    \/ call_id_to_name
    \/ call_load
    \/ caller_clear
    \/ caller_setitem
SpecHost == InitHost /\ [][NextHost]_vars

InitDownload == StartDownload /\ IdleJoin /\ IdleFill /\ IdleRead /\ IdleHost /\ IdleCasjob
NextDownload ==
    \/ download_as_file
    \/ monitor
    \/ file_open
    \/ request_and_get_output
    \/ drop_table
    \/ getsize
    \/ return_failed
SpecDownload == InitDownload /\ [][NextDownload]_vars

InitCasjob ==
    StartCasjob /\ IdleJoin /\ IdleFill /\ IdleRead /\ IdleHost /\ IdleDownload
NextCasjob ==
    \/ submit
    \/ service
    \/ while
    \/ status
    \/ fetch_output
    \/ drop_and_compress
SpecCasjob == InitCasjob /\ [][NextCasjob]_vars

Init == InitJoin \/ InitFill \/ InitRead \/ InitHost \/ InitDownload \/ InitCasjob
Next == NextJoin \/ NextFill \/ NextRead \/ NextHost \/ NextDownload \/ NextCasjob
Spec == Init /\ [][Next]_vars
====
